---- MODULE Spec2Model ----
(***************************************************************************)
(* PineTrack scheduling and reschedule engine.                             *)
(*                                                                         *)
(* The task table of one plot and the operations that write it:            *)
(* generate_schedule_for_plot, evaluate_status_threshold_core,             *)
(* _apply_insight_reschedules, approve_reschedule and reject_reschedule,   *)
(* together with the pure helpers they call (hormone / fertiliser conflict *)
(* resolver, reason merge, safe-date finder, template expander).           *)
(*                                                                         *)
(* Dates are day numbers; the null of a nullable column is `null`.  A      *)
(* reason string is the sequence of its " | "-separated parts, the null    *)
(* and the empty reason being the empty sequence.                          *)
(***************************************************************************)
EXTENDS Integers, Sequences, FiniteSets, TLC

null == -1

\* ------------------------------------------------------------------------
\* Bounds of the model
\* ------------------------------------------------------------------------
MaxSteps == 3
MaxTasks == 9
MaxChain == 17
\* days between day 0 and the first day of the calendar
MaxDaysBack == 30

\* ------------------------------------------------------------------------
\* Program constants
\* ------------------------------------------------------------------------
DEFAULT_HORMONE_BUFFER_DAYS == 7
MAX_LOOKAHEAD_DAYS == 7
max_lookahead_days == 120
stop_buffer == 10
AI_STOP_CONFIDENCE == 70
FERTILISER_HORMONE_CONFLICT_REASON ==
    "Avoid fertiliser application near hormone application (buffer 7 days)."
AUTO_GENERATED_REASON == "Auto-generated from task template"
RESCHEDULE_TYPE_THRESHOLD == "THRESHOLD_RESCHEDULE"
RESCHEDULE_TYPE_CONFLICT == "CONFLICT_BUFFER_ADJUSTMENT"
metadata_supported == TRUE
approval_supported == TRUE

\* TASK_EVAL_DEFAULTS; soil_moisture_field_max defaults to soil_moisture_max.
soil_moisture_max == 25
soil_moisture_field_max == soil_moisture_max
temperature_min == 22
temperature_max == 32
rain_mm_min == 2
rain_mm_heavy == 10

\* ------------------------------------------------------------------------
\* Small helpers
\* ------------------------------------------------------------------------
Max(S) == CHOOSE x \in S : \A y \in S : y <= x
Min(S) == CHOOSE x \in S : \A y \in S : x <= y
Range(f) == {f[i] : i \in DOMAIN f}

\* ------------------------------------------------------------------------
\* Titles and types of the model, and the keyword tests of the code over
\* them (a keyword test is a substring test on the lower-cased text).
\* ------------------------------------------------------------------------
TitleHormone == "Hormone application"
TitleGranular == "Granular fertiliser"
TitleWatering == "Watering"
TitleCutoff == "Processing into pineapple juice"
TitleManualCheck == "Manual field check"
TitleManualFoliar == "Foliar fertiliser top-up"

\* titles / types containing "hormone"
HormoneTitles == {TitleHormone}
HormoneTypes == {"hormone"}
\* titles / types containing "fertil", "foliar" or "granular"
FertiliserTitles == {TitleGranular, TitleManualFoliar}
FertiliserTypes == {"fertilization"}
\* titles containing "processing into pineapple juice"
CutoffTitles == {TitleCutoff}
\* titles containing fertil / spray / hormone / foliar / pesticide /
\* insecticide / flower induction
RainSensitiveTitles == {TitleHormone, TitleGranular, TitleManualFoliar}

is_processing_cutoff_task(task) == task.title \in CutoffTitles

is_hormone_task(task) ==
    task.title \in HormoneTitles \/ task.type \in HormoneTypes

is_fertiliser_task(task) ==
    task.title \in FertiliserTitles \/ task.type \in FertiliserTypes

_is_rain_sensitive(task_title) == task_title \in RainSensitiveTitles

\* ------------------------------------------------------------------------
\* reason_service
\* ------------------------------------------------------------------------
INTERNAL_REASON_MARKERS ==
    {AUTO_GENERATED_REASON, FERTILISER_HORMONE_CONFLICT_REASON}

IsInternalPart(part) == part \in INTERNAL_REASON_MARKERS

NotInternalPart(part) == ~IsInternalPart(part)

strip_internal_reason(reason) == SelectSeq(reason, NotInternalPart)

\* a merge that keeps the addition only
merge_reasons_replaces(existing, addition) ==
    strip_internal_reason(addition)

merge_reasons(existing, addition) ==
    strip_internal_reason(existing) \o strip_internal_reason(addition)

\* f"{existing} | {note}" when existing is non-empty, else note
AppendNote(reason, note) == reason \o <<note>>

\* ------------------------------------------------------------------------
\* task_conflict_service
\* ------------------------------------------------------------------------
get_buffer_days(task) ==
    IF "buffer_days" \in DOMAIN task /\ task.buffer_days # null
    THEN (IF task.buffer_days > 0 THEN task.buffer_days ELSE 0)
    ELSE DEFAULT_HORMONE_BUFFER_DAYS

get_processing_cutoff_date(tasks_) ==
    LET cutoff_dates == {t.task_date : t \in
                           {u \in tasks_ : is_processing_cutoff_task(u)
                                           /\ u.task_date # null}}
    IN IF cutoff_dates # {} THEN Min(cutoff_dates) ELSE null

\* the windows, as pairs <<hormone_date, buffer_days>>
build_hormone_windows(tasks_) ==
    LET cutoff == get_processing_cutoff_date(tasks_)
    IN { <<t.task_date, get_buffer_days(t)>> : t \in
           {u \in tasks_ : /\ is_hormone_task(u)
                           /\ u.task_date # null
                           /\ ~(cutoff # null /\ u.task_date > cutoff)} }

\* the window test with the last buffer day left out
_is_blocked_half_open(candidate, hormone_windows) ==
    \E w \in hormone_windows : w[1] <= candidate /\ candidate < w[1] + w[2]

_is_blocked(candidate, hormone_windows) ==
    \E w \in hormone_windows : w[1] <= candidate /\ candidate <= w[1] + w[2]

_latest_block_end(candidate, hormone_windows) ==
    LET blocked_ends == {w[1] + w[2] : w \in
            {x \in hormone_windows : x[1] <= candidate /\ candidate <= x[1] + x[2]}}
    IN IF blocked_ends # {} THEN Max(blocked_ends) ELSE null

\* The loop of find_next_available_date examines start_date,
\* start_date + 1, ... for max_lookahead_days rounds and returns the first
\* candidate that lies after the cutoff or is not blocked; when every round
\* moves on, it returns the candidate after the last one examined.
ScanStops(candidate, hormone_windows, cutoff_date) ==
    \/ cutoff_date # null /\ candidate > cutoff_date
    \/ ~_is_blocked(candidate, hormone_windows)

\* a scan that goes on past max_lookahead_days until a candidate is free
find_next_available_date_unbounded(start_date, hormone_windows, cutoff_date) ==
    LET examined == start_date..(start_date + 2 * max_lookahead_days)
    IN CHOOSE c \in examined :
           /\ ScanStops(c, hormone_windows, cutoff_date)
           /\ \A d \in start_date..(c - 1) :
                  ~ScanStops(d, hormone_windows, cutoff_date)

find_next_available_date(start_date, hormone_windows, cutoff_date) ==
    LET examined == start_date..(start_date + max_lookahead_days - 1)
    IN IF \E c \in examined : ScanStops(c, hormone_windows, cutoff_date)
       THEN CHOOSE c \in examined :
                /\ ScanStops(c, hormone_windows, cutoff_date)
                /\ \A d \in start_date..(c - 1) :
                       ~ScanStops(d, hormone_windows, cutoff_date)
       ELSE start_date + max_lookahead_days

\* the guard of the loop body of apply_fertiliser_conflict_resolution
NeedsResolution(task, hormone_windows, cutoff_date) ==
    /\ is_fertiliser_task(task)
    /\ task.task_date # null
    /\ ~(cutoff_date # null /\ task.task_date > cutoff_date)
    /\ _is_blocked(task.task_date, hormone_windows)

ResolvedDate(task_date, hormone_windows, cutoff_date) ==
    find_next_available_date(_latest_block_end(task_date, hormone_windows) + 1,
                             hormone_windows, cutoff_date)

\* a resolver whose proposal always resets the status to Pending
apply_fertiliser_conflict_resolution_resets_status(task, all_tasks, reason, shift_task_date, create_proposal, reschedule_type, reschedule_visible) ==
    LET hormone_windows == build_hormone_windows(all_tasks)
        cutoff_date == get_processing_cutoff_date(all_tasks)
    IN IF ~NeedsResolution(task, hormone_windows, cutoff_date) THEN task
       ELSE
        LET new_date == ResolvedDate(task.task_date, hormone_windows, cutoff_date)
            t1 == IF create_proposal
                  THEN [task EXCEPT
                         !.original_date = IF task.original_date # null
                                           THEN task.original_date
                                           ELSE task.task_date,
                         !.proposed_date = new_date,
                         !.status = "Pending",
                         !.reason = AppendNote(strip_internal_reason(task.reason),
                                               reason)]
                  ELSE task
        IN IF shift_task_date THEN [t1 EXCEPT !.task_date = new_date] ELSE t1

\* One iteration of the loop of apply_fertiliser_conflict_resolution: the
\* task as the loop leaves it (unchanged when the iteration `continue`s).
apply_fertiliser_conflict_resolution(task, all_tasks, reason, shift_task_date, create_proposal, reschedule_type, reschedule_visible) ==
    LET hormone_windows == build_hormone_windows(all_tasks)
        cutoff_date == get_processing_cutoff_date(all_tasks)
    IN IF ~NeedsResolution(task, hormone_windows, cutoff_date) THEN task
       ELSE
        LET new_date == ResolvedDate(task.task_date, hormone_windows, cutoff_date)
            existing_reason == strip_internal_reason(task.reason)
            t1 == IF create_proposal
                  THEN [task EXCEPT
                         !.original_date = IF task.original_date # null
                                           THEN task.original_date
                                           ELSE task.task_date,
                         !.proposed_date = new_date,
                         !.status = IF task.status \in {"", "Proceed"}
                                    THEN "Pending" ELSE task.status,
                         !.reason = AppendNote(existing_reason, reason)]
                  ELSE [task EXCEPT
                         !.reschedule_type = IF reschedule_type # "unset"
                                             THEN reschedule_type
                                             ELSE task.reschedule_type,
                         !.reschedule_visible = IF reschedule_visible # "unset"
                                                THEN reschedule_visible
                                                ELSE task.reschedule_visible]
        IN IF shift_task_date THEN [t1 EXCEPT !.task_date = new_date] ELSE t1

\* whether the iteration appended the task to `updated`
WasResolved(task, all_tasks) ==
    NeedsResolution(task, build_hormone_windows(all_tasks),
                    get_processing_cutoff_date(all_tasks))

\* ------------------------------------------------------------------------
\* Template expander (routers/schedule.py)
\* ------------------------------------------------------------------------
\* The first day of the calendar (datetime.date.min): `cur + timedelta(...)`
\* raises OverflowError when the sum falls before it.
date_min == 0 - MaxDaysBack

\* a while loop that leaves out a date equal to end_date
RECURSIVE DatesWhile_excludes_end(_, _, _)
DatesWhile_excludes_end(cur, end_date, step_days) ==
    IF cur < end_date
    THEN <<cur>> \o (IF cur + step_days < date_min THEN <<>>
                     ELSE DatesWhile_excludes_end(cur + step_days, end_date, step_days))
    ELSE <<>>

\* `while cur <= end_date: dates.append(cur); cur = cur + timedelta(step_days)`:
\* the dates appended, up to the return or up to the OverflowError.
RECURSIVE DatesWhile(_, _, _)
DatesWhile(cur, end_date, step_days) ==
    IF cur <= end_date
    THEN <<cur>> \o (IF cur + step_days < date_min THEN <<>>
                     ELSE DatesWhile(cur + step_days, end_date, step_days))
    ELSE <<>>

\* whether the while loop ends in the OverflowError of `cur + timedelta(...)`
\* and not in a return
RECURSIVE WhileRaises(_, _, _)
WhileRaises(cur, end_date, step_days) ==
    /\ cur <= end_date
    /\ \/ cur + step_days < date_min
       \/ WhileRaises(cur + step_days, end_date, step_days)

\* an expander that returns the date of a once/event template whatever the
\* end date is
_dates_for_template_ignores_end(start_date, tpl, horizon_days) ==
    LET base == start_date + tpl.start_offset_days
        freq == IF tpl.frequency = "" THEN "once" ELSE tpl.frequency
        interval == IF tpl.interval = null \/ tpl.interval = 0 THEN 1
                    ELSE tpl.interval
        end_date == IF tpl.end_offset_days # null
                    THEN start_date + tpl.end_offset_days
                    ELSE start_date + horizon_days
        step_days == CASE freq = "daily" -> 1 * interval
                       [] freq = "weekly" -> 7 * interval
                       [] freq = "monthly" -> 30 * interval
                       [] OTHER -> 1
    IN IF freq = "once" \/ freq = "event"
       THEN <<base>>
       ELSE DatesWhile(base, end_date, step_days)

\* A template's `interval` column is an integer or null; `interval or 1`
\* turns null and 0 into 1 and keeps every other value, negative ones
\* included (null is -1 in this module, so negative intervals start at -2).
_dates_for_template(start_date, tpl, horizon_days) ==
    LET base == start_date + tpl.start_offset_days
        freq == IF tpl.frequency = "" THEN "once" ELSE tpl.frequency
        interval == IF tpl.interval = null \/ tpl.interval = 0 THEN 1
                    ELSE tpl.interval
        end_date == IF tpl.end_offset_days # null
                    THEN start_date + tpl.end_offset_days
                    ELSE start_date + horizon_days
        step_days == CASE freq = "daily" -> 1 * interval
                       [] freq = "weekly" -> 7 * interval
                       [] freq = "monthly" -> 30 * interval
                       [] OTHER -> 1
    IN IF freq = "once" \/ freq = "event"
       THEN (IF base <= end_date THEN <<base>> ELSE <<>>)
       ELSE DatesWhile(base, end_date, step_days)

\* whether the call ends in an exception and returns no list
_dates_for_template_raises(start_date, tpl, horizon_days) ==
    LET base == start_date + tpl.start_offset_days
        freq == IF tpl.frequency = "" THEN "once" ELSE tpl.frequency
        interval == IF tpl.interval = null \/ tpl.interval = 0 THEN 1
                    ELSE tpl.interval
        end_date == IF tpl.end_offset_days # null
                    THEN start_date + tpl.end_offset_days
                    ELSE start_date + horizon_days
        step_days == CASE freq = "daily" -> 1 * interval
                       [] freq = "weekly" -> 7 * interval
                       [] freq = "monthly" -> 30 * interval
                       [] OTHER -> 1
    IN /\ freq # "once" /\ freq # "event"
       /\ WhileRaises(base, end_date, step_days)

\* ------------------------------------------------------------------------
\* Rain calendar and safe-date finder (routers/schedule.py)
\* ------------------------------------------------------------------------
\* The rain calendars of the model: millimetres of rain per day.  A day
\* missing from the calendar reads as 0.
Calendars == {"dry", "showers", "storm", "clearing", "passing"}

\* forecasts that cover some days only: heavy rain on days 6 and 7, then
\* showers; and showers on day 6, heavy rain on day 7, an explicit 0 after
ClearingForecast == (6 :> 11) @@ (7 :> 11) @@ (8 :> 3) @@ (9 :> 3)
PassingForecast == (4 :> 0) @@ (6 :> 3) @@ (7 :> 11) @@ (8 :> 0)

\* `float(weather_calendar.get(candidate.isoformat(), 0.0) or 0.0)`
CalendarGet(weather_calendar, day) ==
    CASE weather_calendar = "dry" -> 0
      [] weather_calendar = "showers" -> 3
      [] weather_calendar = "storm" -> 11
      [] weather_calendar = "clearing" ->
            IF day \in DOMAIN ClearingForecast THEN ClearingForecast[day] ELSE 0
      [] weather_calendar = "passing" ->
            IF day \in DOMAIN PassingForecast THEN PassingForecast[day] ELSE 0

RECURSIVE ScanSafe(_, _, _, _, _, _, _, _)
ScanSafe(offset, target_date, reschedule_days, max_lookahead, weather_calendar, rain_min, rain_heavy, task_title) ==
    IF offset > max_lookahead
    THEN [date |-> target_date + reschedule_days,
          rationale |-> "Fallback: no safe day found within window."]
    ELSE LET candidate == target_date + offset
             rain == CalendarGet(weather_calendar, candidate)
         IN IF rain_heavy # null /\ rain >= rain_heavy
            THEN ScanSafe(offset + 1, target_date, reschedule_days, max_lookahead,
                          weather_calendar, rain_min, rain_heavy, task_title)
            ELSE IF rain_min # null /\ rain >= rain_min
                    /\ _is_rain_sensitive(task_title)
            THEN ScanSafe(offset + 1, target_date, reschedule_days, max_lookahead,
                          weather_calendar, rain_min, rain_heavy, task_title)
            ELSE [date |-> candidate,
                  rationale |-> "Rescheduled to next safe day based on rain forecast."]

\* a scan that starts at the target date itself
_find_next_safe_date_from_target(target_date, reschedule_days, max_lookahead, weather_calendar, rain_min, rain_heavy, task_title) ==
    ScanSafe(0, target_date, reschedule_days, max_lookahead, weather_calendar,
             rain_min, rain_heavy, task_title)

_find_next_safe_date(target_date, reschedule_days, max_lookahead, weather_calendar, rain_min, rain_heavy, task_title) ==
    ScanSafe(1, target_date, reschedule_days, max_lookahead, weather_calendar,
             rain_min, rain_heavy, task_title)

\* ------------------------------------------------------------------------
\* The stores
\* ------------------------------------------------------------------------
\* the plot of the model and the digest int(sha256(plot_id), 16) of its id
ThePlot == "PLOT_A"
PlotDigest == 5

\* workers with role "Field Worker" and is_active, ordered by name
active_workers == <<"W_ALI", "W_BEN">>

\* the rows of task_templates with active = true
task_templates ==
    << [title |-> TitleHormone, type |-> "hormone", start_offset_days |-> 2,
        end_offset_days |-> null, frequency |-> "once", interval |-> 1],
       [title |-> TitleGranular, type |-> "fertilization", start_offset_days |-> 3,
        end_offset_days |-> null, frequency |-> "weekly", interval |-> 1],
       [title |-> TitleWatering, type |-> "watering", start_offset_days |-> 2,
        end_offset_days |-> null, frequency |-> "once", interval |-> 1],
       [title |-> TitleCutoff, type |-> "harvest", start_offset_days |-> 9,
        end_offset_days |-> null, frequency |-> "event", interval |-> 1] >>

\* a row of the tasks table
Row(id, title, type, task_date, original_date, worker) ==
    [id |-> id, plot_id |-> ThePlot, title |-> title, type |-> type,
     task_date |-> task_date, original_date |-> original_date,
     proposed_date |-> null, status |-> "Proceed", reason |-> <<>>,
     assigned_worker_id |-> worker, reschedule_type |-> "null",
     reschedule_visible |-> "null", approval_state |-> "null"]

RowFields == DOMAIN Row(1, "", "", 0, 0, "null")

\* tasks entered by hand: original_date is null
ManualTasks ==
    { Row(1, TitleManualCheck, "inspection", 2, null, "W_ALI"),
      Row(2, TitleManualFoliar, "fertilization", 5, null, "W_BEN"),
      Row(3, TitleHormone, "hormone", 6, null, "W_ALI") }

VARIABLES
    tasks,      \* the rows of the tasks table
    nextId,     \* the next fresh task id
    manualIds,  \* ids of the rows that were entered by hand
    lastOp,     \* the last operation and what it returned
    steps,      \* number of operations so far
    probe       \* input and result of a helper applied on its own

vars == <<tasks, nextId, manualIds, lastOp, steps, probe>>

NoProbe == [stage |-> "none"]

NoOp == [op |-> "none", id |-> null, ok |-> TRUE, status_code |-> 200,
         evaluated |-> 0, updated |-> 0]

Init ==
    /\ tasks \in {{}, ManualTasks}
    /\ nextId = 4
    /\ manualIds = {t.id : t \in tasks}
    /\ lastOp = NoOp
    /\ steps = 0
    /\ probe = NoProbe

TaskById(id) == CHOOSE t \in tasks : t.id = id

\* ------------------------------------------------------------------------
\* approve_reschedule / reject_reschedule (routers/tasks.py)
\* ------------------------------------------------------------------------
\* a load that lets a task without a proposal through
LoadStatus_accepts_no_proposal(rows, task_id) ==
    IF ~\E t \in rows : t.id = task_id THEN 404 ELSE 200

\* The status the first lines of both handlers answer with: 404 when no row
\* has the id, 400 when the row's proposed_date is null, 200 when they go on.
LoadStatus(rows, task_id) ==
    IF ~\E t \in rows : t.id = task_id THEN 404
    ELSE IF \E t \in rows : t.id = task_id /\ t.proposed_date = null THEN 400
    ELSE 200

\* an approval that also resets original_date to the approved date
ApprovedRow_resets_original(task) ==
    [task EXCEPT !.task_date = task.proposed_date,
                 !.original_date = task.proposed_date,
                 !.proposed_date = null,
                 !.status = "Proceed",
                 !.reason = AppendNote(task.reason, "Approved by manager")]

ApprovedRow(task) ==
    [task EXCEPT !.task_date = task.proposed_date,
                 !.proposed_date = null,
                 !.status = "Proceed",
                 !.reason = AppendNote(task.reason, "Approved by manager")]

approve_reschedule(task_id) ==
    /\ steps < MaxSteps
    /\ steps' = steps + 1
    /\ UNCHANGED <<nextId, manualIds, probe>>
    /\ IF LoadStatus(tasks, task_id) = 200
       THEN /\ tasks' = (tasks \ {TaskById(task_id)})
                          \cup {ApprovedRow(TaskById(task_id))}
            /\ lastOp' = [NoOp EXCEPT !.op = "approve", !.id = task_id]
       ELSE \* 404 Task not found / 400 No proposed_date to approve
            /\ tasks' = tasks
            /\ lastOp' = [NoOp EXCEPT !.op = "approve", !.id = task_id,
                                      !.ok = FALSE,
                                      !.status_code = LoadStatus(tasks, task_id)]

\* a rejection that puts the task back to Proceed
RejectedRow_back_to_proceed(task) ==
    [task EXCEPT !.proposed_date = null,
                 !.status = "Proceed",
                 !.reason = AppendNote(task.reason, "Rejected by manager")]

RejectedRow(task) ==
    LET keep_status == IF task.status = "" THEN "Pending" ELSE task.status
    IN [task EXCEPT !.proposed_date = null,
                    !.status = IF keep_status = "Proceed" THEN "Pending"
                               ELSE keep_status,
                    !.reason = AppendNote(task.reason, "Rejected by manager")]

reject_reschedule(task_id) ==
    /\ steps < MaxSteps
    /\ steps' = steps + 1
    /\ UNCHANGED <<nextId, manualIds, probe>>
    /\ IF LoadStatus(tasks, task_id) = 200
       THEN /\ tasks' = (tasks \ {TaskById(task_id)})
                          \cup {RejectedRow(TaskById(task_id))}
            /\ lastOp' = [NoOp EXCEPT !.op = "reject", !.id = task_id]
       ELSE \* 404 Task not found / 400 No proposed_date to reject
            /\ tasks' = tasks
            /\ lastOp' = [NoOp EXCEPT !.op = "reject", !.id = task_id,
                                      !.ok = FALSE,
                                      !.status_code = LoadStatus(tasks, task_id)]

\* ------------------------------------------------------------------------
\* generate_schedule_for_plot (routers/schedule.py)
\* ------------------------------------------------------------------------
StartDates == {0}
Horizons == {8, 10}
Modes == {"overwrite", "append"}

_stable_start_index(plot_digest, worker_count) ==
    IF worker_count <= 0 THEN 0 ELSE plot_digest % worker_count

\* an element of tasks_to_insert, before conflict resolution
Draft(id, tpl, d) ==
    [id |-> id, plot_id |-> ThePlot, title |-> tpl.title, type |-> tpl.type,
     task_date |-> d, original_date |-> d, proposed_date |-> null,
     status |-> "Proceed", reason |-> <<>>, assigned_worker_id |-> "null",
     reschedule_type |-> "null", reschedule_visible |-> "null",
     approval_state |-> "null",
     buffer_days |-> IF "buffer_days" \in DOMAIN tpl /\ tpl.buffer_days # null
                     THEN tpl.buffer_days ELSE DEFAULT_HORMONE_BUFFER_DAYS]

RECURSIVE BuildDrafts(_, _, _, _, _)
BuildDrafts(i, templates, start_date, horizon_days, firstId) ==
    IF i > Len(templates) THEN <<>>
    ELSE LET tpl_dates == _dates_for_template(start_date, templates[i], horizon_days)
         IN [k \in 1..Len(tpl_dates) |->
                Draft(firstId + k - 1, templates[i], tpl_dates[k])]
            \o BuildDrafts(i + 1, templates, start_date, horizon_days,
                           firstId + Len(tpl_dates))

\* the delete of overwrite mode
PurgedByOverwrite(rows, start_date, horizon_days) ==
    {t \in rows : /\ t.plot_id = ThePlot
                  /\ t.task_date >= start_date
                  /\ t.task_date <= start_date + horizon_days
                  /\ t.original_date # null}

_fetch_plot_tasks_for_conflict_check(rows, date_from, date_to) ==
    {t \in rows : t.plot_id = ThePlot /\ t.task_date >= date_from
                  /\ t.task_date <= date_to}

\* a round robin that starts at the first worker for every plot
SelectedWorker_from_first(workers, plot_digest, idx) ==
    workers[(idx % Len(workers)) + 1]

\* `selected = active_workers[(start_index + idx) % len(active_workers)]`
SelectedWorker(workers, plot_digest, idx) ==
    workers[((_stable_start_index(plot_digest, Len(workers)) + idx)
             % Len(workers)) + 1]

\* step 3.5: round-robin over the active workers
AssignWorker(task, idx) ==
    IF Len(active_workers) = 0
    THEN [task EXCEPT !.assigned_worker_id = "null"]
    ELSE [task EXCEPT !.assigned_worker_id =
            SelectedWorker(active_workers, PlotDigest, idx)]

\* step 4: drop buffer_days before the insert
Insertable(task) == [f \in RowFields |-> task[f]]

\* steps 3 to 4 on the persisted tasks the call read: the persisted tasks
\* in conflict, their rows as the update writes them, the rows to insert
GenerationPlan(existing_tasks, start_date, horizon_days, firstId) ==
    LET tasks_to_insert == BuildDrafts(1, task_templates, start_date,
                                       horizon_days, firstId)
        all_before == existing_tasks \cup Range(tasks_to_insert)
        rtype == IF metadata_supported THEN RESCHEDULE_TYPE_CONFLICT ELSE "unset"
        rvisible == IF metadata_supported THEN "false" ELSE "unset"
        shifted == [k \in DOMAIN tasks_to_insert |->
                      apply_fertiliser_conflict_resolution(tasks_to_insert[k],
                          all_before, FERTILISER_HORMONE_CONFLICT_REASON,
                          TRUE, FALSE, rtype, rvisible)]
        all_after == existing_tasks \cup Range(shifted)
        existing_conflicts == {t \in existing_tasks : WasResolved(t, all_after)}
    IN [created |-> Len(tasks_to_insert),
        conflicts |-> existing_conflicts,
        updates |-> {apply_fertiliser_conflict_resolution(t, all_after,
                        FERTILISER_HORMONE_CONFLICT_REASON,
                        TRUE, FALSE, rtype, rvisible) : t \in existing_conflicts},
        inserts |-> {Insertable(AssignWorker(shifted[k], k - 1)) :
                        k \in DOMAIN shifted}]

\* the store after the updates and the insert of a call that ran alone
PlanApplied(kept, plan) ==
    IF plan.created = 0 THEN kept
    ELSE ((kept \ plan.conflicts) \cup plan.updates) \cup plan.inserts

\* the delete of step 2
KeptByMode(rows, start_date, mode, horizon_days) ==
    IF mode = "overwrite"
    THEN rows \ PurgedByOverwrite(rows, start_date, horizon_days)
    ELSE rows

\* the persisted tasks step 3.4 reads
ExistingForConflictCheck(kept, start_date, horizon_days) ==
    _fetch_plot_tasks_for_conflict_check(kept,
        start_date - DEFAULT_HORMONE_BUFFER_DAYS,
        start_date + horizon_days + DEFAULT_HORMONE_BUFFER_DAYS)

GeneratedFrom(kept, start_date, horizon_days, firstId) ==
    PlanApplied(kept,
                GenerationPlan(ExistingForConflictCheck(kept, start_date,
                                                        horizon_days),
                               start_date, horizon_days, firstId))

GeneratedStore(rows, start_date, mode, horizon_days, firstId) ==
    GeneratedFrom(KeptByMode(rows, start_date, mode, horizon_days),
                  start_date, horizon_days, firstId)

\* the rows of the plots table, the plot ids a call may name, and what the
\* query of the active templates may return
plots == {ThePlot}
PlotIds == {ThePlot, "PLOT_X"}
TemplateTables == {task_templates, <<>>}

\* steps 0 and 1: the two validations that end the call before any write
GenerateRejected(plot_id, templates) ==
    plot_id \notin plots \/ Len(templates) = 0

\* a handler that runs the delete of overwrite mode before it validates
StoreAfterGenerate_deletes_first(rows, plot_id, templates, start_date, mode, horizon_days, firstId) ==
    IF GenerateRejected(plot_id, templates)
    THEN (IF mode = "overwrite"
          THEN rows \ PurgedByOverwrite(rows, start_date, horizon_days)
          ELSE rows)
    ELSE GeneratedStore(rows, start_date, mode, horizon_days, firstId)

\* the task store the call leaves
StoreAfterGenerate(rows, plot_id, templates, start_date, mode, horizon_days, firstId) ==
    IF GenerateRejected(plot_id, templates) THEN rows
    ELSE GeneratedStore(rows, start_date, mode, horizon_days, firstId)

generate_schedule_for_plot(start_date, plot_id, mode, horizon_days, allow_no_templates, templates) ==
    LET created == IF GenerateRejected(plot_id, templates) THEN 0
                   ELSE Len(BuildDrafts(1, templates, start_date, horizon_days,
                                        nextId))
    IN /\ steps < MaxSteps
       /\ Cardinality(tasks) + created <= MaxTasks
       /\ steps' = steps + 1
       /\ tasks' = StoreAfterGenerate(tasks, plot_id, templates, start_date,
                                      mode, horizon_days, nextId)
       /\ nextId' = nextId + created
       /\ UNCHANGED <<manualIds, probe>>
       /\ lastOp' = [NoOp EXCEPT !.op = "generate",
                                 !.ok = \/ plot_id \in plots /\ Len(templates) > 0
                                        \/ plot_id \in plots /\ allow_no_templates,
                                 !.status_code =
                                     IF \/ plot_id \in plots /\ Len(templates) > 0
                                        \/ plot_id \in plots /\ allow_no_templates
                                     THEN 200 ELSE 400,
                                 !.updated = created]

\* ------------------------------------------------------------------------
\* evaluate_status_threshold_core (routers/schedule.py)
\* ------------------------------------------------------------------------
\* What one call reads from its collaborators: the resolved sensor values
\* (null when missing), the rain calendar, the predictor's answer (label and
\* confidence in percent) and the caller's reschedule_days.
Readings ==
    { [soil_moisture |-> 20, temperature |-> 27],
      [soil_moisture |-> 30, temperature |-> 35],
      [soil_moisture |-> 36, temperature |-> 27],
      [soil_moisture |-> null, temperature |-> null] }
Predictions == { <<"Proceed", 50>>, <<"Pending", 50>>, <<"Stop", 85>> }
RescheduleDays == {0, 2}
EvalDates == {2, 3, 5, 10}

EvalCalendars == {"dry", "storm"}

NoReadings == [soil_moisture |-> null, temperature |-> null]
PendingReadings == [soil_moisture |-> 30, temperature |-> 35]

\* The calendar is read only to reschedule a Pending task and
\* reschedule_days only when no day of the calendar is safe, and a call
\* without readings returns before it reads anything else: the inputs that
\* differ only in a value the call does not read are enumerated once.
EvalInputs ==
    {inp \in [readings : Readings, calendar : EvalCalendars, ai : Predictions,
              reschedule_days : RescheduleDays] :
        /\ inp.calendar = "dry" => inp.reschedule_days = 2
        /\ inp.readings # PendingReadings => inp.calendar = "dry"
        /\ inp.readings = NoReadings => inp.ai = <<"Proceed", 50>>}

Rank(status) == CASE status = "Stop" -> 2 [] status = "Pending" -> 1 [] OTHER -> 0

NoBreach == [level |-> "none", text |-> ""]

\* a rule that stops at a breach equal to the stop buffer
CheckMax_stops_at_buffer(applies, value, limit, what) ==
    IF applies /\ value # null /\ limit # null /\ value > limit
    THEN IF value - limit >= stop_buffer
         THEN [level |-> "stop",
               text |-> what \o ToString(value) \o " exceeded configured max "
                        \o ToString(limit) \o " by " \o ToString(value - limit)
                        \o " (> 10)"]
         ELSE [level |-> "pending",
               text |-> what \o ToString(value) \o " exceeded configured max "
                        \o ToString(limit)]
    ELSE NoBreach

\* one "value above configured max" rule
CheckMax(applies, value, limit, what) ==
    IF applies /\ value # null /\ limit # null /\ value > limit
    THEN IF value - limit > stop_buffer
         THEN [level |-> "stop",
               text |-> what \o ToString(value) \o " exceeded configured max "
                        \o ToString(limit) \o " by " \o ToString(value - limit)
                        \o " (> 10)"]
         ELSE [level |-> "pending",
               text |-> what \o ToString(value) \o " exceeded configured max "
                        \o ToString(limit)]
    ELSE NoBreach

\* the "temperature below configured min" rule
CheckMin(value, limit) ==
    IF value # null /\ limit # null /\ value < limit
    THEN IF limit - value > stop_buffer
         THEN [level |-> "stop",
               text |-> "Temperature " \o ToString(value)
                        \o " below configured min " \o ToString(limit)
                        \o " by " \o ToString(limit - value) \o " (> 10)"]
         ELSE [level |-> "pending",
               text |-> "Temperature " \o ToString(value)
                        \o " below configured min " \o ToString(limit)]
    ELSE NoBreach

IsStopBreach(b) == b.level = "stop"
IsPendingBreach(b) == b.level = "pending"

\* " | ".join(reasons) wrapped in prefix and suffix, as reason parts
JoinReasons(prefix, breaches, suffix) ==
    [i \in 1..Len(breaches) |->
        (IF i = 1 THEN prefix ELSE "") \o breaches[i].text
        \o (IF i = Len(breaches) THEN suffix ELSE "")]

\* lines 817-926: the rule stage for one task
RuleStage(t, target_date, inp) ==
    LET m == inp.readings.soil_moisture
        temp == inp.readings.temperature
        breaches ==
            << CheckMax(t.type \in {"watering", "irrigation"}, m,
                        soil_moisture_max, "Soil moisture "),
               CheckMax(t.type \in {"weeding", "land-prep", "fertilization"}, m,
                        soil_moisture_field_max, "Field soil moisture "),
               CheckMax(TRUE, temp, temperature_max, "Temperature "),
               CheckMin(temp, temperature_min) >>
        stop_reasons == SelectSeq(breaches, IsStopBreach)
        pending_reasons == SelectSeq(breaches, IsPendingBreach)
        safe == _find_next_safe_date(target_date, inp.reschedule_days,
                                     MAX_LOOKAHEAD_DAYS, inp.calendar,
                                     rain_mm_min, rain_mm_heavy, t.title)
    IN IF Len(stop_reasons) > 0
       THEN [status |-> "Stop", proposed_date |-> null,
             reason |-> JoinReasons("Stop: ", stop_reasons, ".")]
       ELSE IF Len(pending_reasons) > 0
       THEN [status |-> "Pending", proposed_date |-> safe.date,
             reason |-> JoinReasons("Pending: ", pending_reasons,
                           ". Rescheduled to " \o ToString(safe.date) \o ".")]
       ELSE [status |-> "Proceed", proposed_date |-> null,
             reason |-> <<"Proceed (thresholds OK)">>]

\* what _adjust_proposed_date_for_conflict returns when it changes nothing
Unadjusted(task, proposed_date) ==
    [proposed_date |-> proposed_date,
     reason |-> strip_internal_reason(task.reason),
     status |-> task.status]

\* what it returns for the task the resolver updated
AdjustedTo(resolved) ==
    [proposed_date |-> resolved.proposed_date,
     reason |-> strip_internal_reason(resolved.reason),
     status |-> resolved.status]

\* lines 243-267: the resolver on the task dated at the candidate
AdjustAgainst(temp_task, existing_tasks, unchanged) ==
    IF ~WasResolved(temp_task, existing_tasks \cup {temp_task}) THEN unchanged
    ELSE AdjustedTo(apply_fertiliser_conflict_resolution(temp_task,
                        existing_tasks \cup {temp_task},
                        FERTILISER_HORMONE_CONFLICT_REASON, FALSE, TRUE,
                        "unset", "unset"))

_adjust_proposed_date_for_conflict(rows, task, proposed_date) ==
    IF proposed_date = null \/ ~is_fertiliser_task(task)
    THEN Unadjusted(task, proposed_date)
    ELSE AdjustAgainst([task EXCEPT !.task_date = proposed_date],
                       _fetch_plot_tasks_for_conflict_check(rows,
                           proposed_date - DEFAULT_HORMONE_BUFFER_DAYS,
                           proposed_date + DEFAULT_HORMONE_BUFFER_DAYS),
                       Unadjusted(task, proposed_date))

\* lines 941-943: the adjusted values replace the rule stage's where set
ConflictAdjusted(rule, adj) ==
    [status |-> IF adj.status # "" THEN adj.status ELSE rule.status,
     proposed_date |-> adj.proposed_date,
     reason |-> IF Len(adj.reason) > 0 THEN adj.reason ELSE rule.reason]

\* lines 928-943: the conflict stage
ConflictStage(rows, t, rule) ==
    IF rule.status = "Pending" /\ rule.proposed_date # null
    THEN ConflictAdjusted(rule,
             _adjust_proposed_date_for_conflict(rows,
                 [t EXCEPT !.status = rule.status, !.reason = rule.reason,
                           !.original_date = null, !.proposed_date = null],
                 rule.proposed_date))
    ELSE rule

AiReason(label, conf) ==
    <<"AI predicted " \o label \o " (conf " \o ToString(conf) \o ")">>

\* a predictor stage that accepts a predicted Stop at any confidence
AiStage_any_confidence(cur, ai) ==
    IF cur.status = "Proceed" /\ ai[1] = "Pending"
    THEN [cur EXCEPT !.status = "Pending",
                     !.reason = merge_reasons(cur.reason, AiReason("Pending", ai[2]))]
    ELSE IF cur.status \in {"Proceed", "Pending"} /\ ai[1] = "Stop"
    THEN [cur EXCEPT !.status = "Stop",
                     !.reason = merge_reasons(cur.reason, AiReason("Stop", ai[2]))]
    ELSE cur

\* a predictor stage that takes over the predicted label
AiStage_takes_label(cur, ai) ==
    IF ai[1] = cur.status THEN cur
    ELSE [cur EXCEPT !.status = ai[1],
                     !.reason = merge_reasons(cur.reason, AiReason(ai[1], ai[2]))]

\* lines 952-971: the predictor may escalate
AiStage(cur, ai) ==
    IF cur.status = "Proceed" /\ ai[1] = "Pending"
    THEN [cur EXCEPT !.status = "Pending",
                     !.reason = merge_reasons(cur.reason, AiReason("Pending", ai[2]))]
    ELSE IF cur.status \in {"Proceed", "Pending"} /\ ai[1] = "Stop"
            /\ ai[2] >= AI_STOP_CONFIDENCE
    THEN [cur EXCEPT !.status = "Stop",
                     !.reason = merge_reasons(cur.reason, AiReason("Stop", ai[2]))]
    ELSE cur

\* the decision for one task, with the status after each stage
DecisionRecord(t, rule, conflict, final) ==
    [id |-> t.id, rule |-> rule.status, conflict |-> conflict.status,
     status |-> final.status, reason |-> final.reason,
     proposed_date |-> final.proposed_date,
     adjusted |-> conflict.proposed_date # rule.proposed_date,
     rule_reason |-> rule.reason, conflict_reason |-> conflict.reason,
     conflict_date |-> conflict.proposed_date]

DecisionAfterConflict(t, rule, conflict, ai) ==
    DecisionRecord(t, rule, conflict, AiStage(conflict, ai))

DecisionAfterRule(rows, t, rule, ai) ==
    DecisionAfterConflict(t, rule, ConflictStage(rows, t, rule), ai)

Decision(rows, t, target_date, inp) ==
    DecisionAfterRule(rows, t, RuleStage(t, target_date, inp), inp.ai)

\* a change test that reads original_date where it means proposed_date
should_update_wrong_column(t, d) ==
    \/ d.status # t.status
    \/ d.proposed_date # t.original_date
    \/ d.reason # t.reason

\* lines 983-986
should_update(t, d) ==
    \/ d.status # t.status
    \/ d.proposed_date # t.proposed_date
    \/ d.reason # t.reason

\* an update that leaves the reschedule metadata of the row as it was
EvaluatedRow_keeps_metadata(t, d, target_date) ==
    LET base == [t EXCEPT !.status = d.status, !.reason = d.reason,
                          !.proposed_date = d.proposed_date,
                          !.original_date = target_date]
    IN IF approval_supported /\ d.proposed_date # null
       THEN [base EXCEPT !.approval_state = "pending"]
       ELSE base

\* lines 1005-1017: the update of one row
EvaluatedRow(t, d, target_date) ==
    LET base == [t EXCEPT !.status = d.status, !.reason = d.reason,
                          !.proposed_date = d.proposed_date,
                          !.original_date = target_date]
        meta == IF metadata_supported /\ d.proposed_date # null
                THEN [base EXCEPT !.reschedule_type = RESCHEDULE_TYPE_THRESHOLD,
                                  !.reschedule_visible = "true"]
                ELSE base
    IN IF approval_supported /\ d.proposed_date # null
       THEN [meta EXCEPT !.approval_state = "pending"]
       ELSE meta

SelectedTasks(rows, target_date) ==
    {t \in rows : t.plot_id = ThePlot /\ t.task_date = target_date}

\* an early return that is taken as soon as one value is missing
Skipped_when_one_is_missing(inp) ==
    inp.readings.temperature = null \/ inp.readings.soil_moisture = null

\* the early return of lines 743-768
Skipped(inp) ==
    inp.readings.temperature = null /\ inp.readings.soil_moisture = null

\* lines 1001-1018: the store after the updates, and the two counts
Written(rows, selected, dec, updates, target_date) ==
    [store |-> (rows \ updates)
               \cup {EvaluatedRow(t, dec[t], target_date) : t \in updates},
     evaluated |-> Cardinality(selected),
     updated |-> Cardinality(updates)]

\* lines 795-999: the tasks the loop puts on the update list
Decided(rows, selected, dec, target_date, inp) ==
    Written(rows, selected, dec,
            IF Skipped(inp) THEN {}
            ELSE {t \in selected : should_update(t, dec[t])},
            target_date)

\* One call: the store it leaves, tasks_evaluated and tasks_updated.
EvalOutcome(rows, target_date, inp) ==
    Decided(rows, SelectedTasks(rows, target_date),
            [t \in SelectedTasks(rows, target_date) |->
                Decision(rows, t, target_date, inp)],
            target_date, inp)

Returned(out) ==
    /\ tasks' = out.store
    /\ lastOp' = [NoOp EXCEPT !.op = "evaluate",
                              !.evaluated = out.evaluated,
                              !.updated = out.updated]

evaluate_status_threshold_core(target_date, inp) ==
    /\ steps < MaxSteps
    /\ steps' = steps + 1
    /\ UNCHANGED <<nextId, manualIds, probe>>
    /\ Returned(EvalOutcome(tasks, target_date, inp))

\* ------------------------------------------------------------------------
\* _apply_insight_reschedules (routers/schedule.py), applied to one
\* RESCHEDULE recommendation whose suggested_date is the date that
\* suggest_date_for_task computes: (original_date or task_date) + delay.
\* ------------------------------------------------------------------------
InsightDelays == {0, 2}

InsightReason == <<"Insight: reschedule recommended",
                   "AI delay + weather-validated date">>

suggest_date_for_task(task, delay_days) ==
    (IF task.original_date # null THEN task.original_date ELSE task.task_date)
    + delay_days

\* the skip test without the comparison with the stored proposed_date
InsightApplies_without_skip(task, suggested_date) ==
    task.status \in {"Pending", "Stop"}

InsightApplies(task, suggested_date) ==
    /\ task.status \in {"Pending", "Stop"}
    /\ task.proposed_date # suggested_date

InsightRow(rows, task, suggested_date) ==
    LET merged_reason == merge_reasons(task.reason, InsightReason)
        adj == _adjust_proposed_date_for_conflict(rows,
                   [task EXCEPT !.reason = merged_reason], suggested_date)
        r1 == [task EXCEPT !.proposed_date = adj.proposed_date,
                           !.reason = adj.reason]
        r2 == IF task.original_date = null
              THEN [r1 EXCEPT !.original_date = task.task_date] ELSE r1
        r3 == IF adj.status # "" /\ adj.status # task.status
              THEN [r2 EXCEPT !.status = adj.status] ELSE r2
    IN IF metadata_supported /\ adj.proposed_date # null
       THEN [r3 EXCEPT !.reschedule_type = RESCHEDULE_TYPE_THRESHOLD,
                       !.reschedule_visible = "true"]
       ELSE r3

_apply_insight_reschedules(task_id, delay_days) ==
    /\ steps < MaxSteps
    /\ \E t \in tasks : t.id = task_id
    /\ steps' = steps + 1
    /\ UNCHANGED <<nextId, manualIds, probe>>
    /\ LET task == TaskById(task_id)
           suggested_date == suggest_date_for_task(task, delay_days)
       IN IF InsightApplies(task, suggested_date)
          THEN /\ tasks' = (tasks \ {task})
                             \cup {InsightRow(tasks, task, suggested_date)}
               /\ lastOp' = [NoOp EXCEPT !.op = "insight", !.id = task_id,
                                         !.updated = 1]
          ELSE /\ tasks' = tasks
               /\ lastOp' = [NoOp EXCEPT !.op = "insight"]

\* ------------------------------------------------------------------------
\* fetch_pending_reschedule_tasks (services/reschedule_service.py): whether
\* the manager-facing queue of pending reschedules lists the row
\* ------------------------------------------------------------------------
InPendingQueue(t) ==
    /\ t.proposed_date # null
    /\ metadata_supported =>
          \/ t.reschedule_visible \in {"null", "true"}
          \/ t.reschedule_type = RESCHEDULE_TYPE_THRESHOLD
    /\ t.approval_state \in {"null", "pending"}

\* ------------------------------------------------------------------------
\* The specification of the task store
\* ------------------------------------------------------------------------
TaskIds == {t.id : t \in tasks}

Generate ==
    \E start_date \in StartDates, plot_id \in PlotIds, mode \in Modes,
       horizon_days \in Horizons, allow_no_templates \in BOOLEAN,
       templates \in TemplateTables :
        generate_schedule_for_plot(start_date, plot_id, mode, horizon_days,
                                   allow_no_templates, templates)

Evaluate ==
    \E target_date \in EvalDates, inp \in EvalInputs :
        evaluate_status_threshold_core(target_date, inp)

Insight ==
    \E task_id \in TaskIds, delay_days \in InsightDelays :
        _apply_insight_reschedules(task_id, delay_days)

Approve == \E task_id \in TaskIds \cup {0} : approve_reschedule(task_id)

Reject == \E task_id \in TaskIds \cup {0} : reject_reschedule(task_id)

Next == Generate \/ Evaluate \/ Insight \/ Approve \/ Reject

Spec == Init /\ [][Next]_vars

\* ------------------------------------------------------------------------
\* The conflict resolver applied on its own, as the unit tests apply it:
\* one fertiliser task, a chain of hormone tasks one `spacing` apart from
\* day 0, and possibly a processing-cutoff task.
\* ------------------------------------------------------------------------
ChainSpacings == {4, 8, 9}
FertiliserDates == 0..9
CutoffDates == {null, 6, 10, 200}

ResolverTasks(chain, spacing, cutoff) ==
    {Row(100 + k, TitleHormone, "hormone", k * spacing, null, "null") :
        k \in 0..(chain - 1)}
    \cup (IF cutoff = null THEN {}
          ELSE {Row(99, TitleCutoff, "harvest", cutoff, null, "null")})

\* what the fertiliser task carries when the resolver is called: a fresh
\* task, a task the evaluator has made Pending, a stopped task that still
\* has its generation note, and a task without a status
PlainVariant == [status |-> "Proceed", original_date |-> null, reason |-> <<>>]

FertiliserVariants ==
    { PlainVariant,
      [status |-> "Pending", original_date |-> 1,
       reason |-> <<"Pending: Temperature 35 exceeded configured max 32">>],
      [status |-> "Stop", original_date |-> null,
       reason |-> <<AUTO_GENERATED_REASON>>],
      [status |-> "", original_date |-> 0, reason |-> <<>>] }

ResolverFertiliser(fert_date, variant) ==
    [Row(98, TitleGranular, "fertilization", fert_date, variant.original_date,
         "null") EXCEPT !.status = variant.status, !.reason = variant.reason]

InitResolver ==
    /\ tasks = {}
    /\ nextId = 3
    /\ manualIds = {}
    /\ lastOp = NoOp
    /\ steps = 0
    /\ \E chain \in 1..MaxChain, spacing \in ChainSpacings,
          fert_date \in FertiliserDates, cutoff \in CutoffDates,
          variant \in FertiliserVariants :
          \* the fields of the variant are not read by the scan: the long
          \* chains are enumerated with the plain variant only
          /\ chain > 2 => variant = PlainVariant
          /\ probe = [stage |-> "input", chain |-> chain, spacing |-> spacing,
                      fert_date |-> fert_date, cutoff |-> cutoff,
                      variant |-> variant]

Resolve ==
    /\ probe.stage = "input"
    /\ LET task == ResolverFertiliser(probe.fert_date, probe.variant)
           all_tasks == ResolverTasks(probe.chain, probe.spacing, probe.cutoff)
                        \cup {task}
       IN probe' = [stage |-> "done", chain |-> probe.chain,
                    spacing |-> probe.spacing, fert_date |-> probe.fert_date,
                    cutoff |-> probe.cutoff, variant |-> probe.variant,
                    updated |-> WasResolved(task, all_tasks),
                    task |-> apply_fertiliser_conflict_resolution(task, all_tasks,
                                 FERTILISER_HORMONE_CONFLICT_REASON, TRUE, TRUE,
                                 "unset", "unset")]
    /\ UNCHANGED <<tasks, nextId, manualIds, lastOp, steps>>

NextResolver == Resolve

SpecResolver == InitResolver /\ [][NextResolver]_vars

\* ------------------------------------------------------------------------
\* The specification of the template expander as a function: one template
\* (a row of task_templates), a start date and a horizon, then one call of
\* _dates_for_template.
\* ------------------------------------------------------------------------
ExpanderFrequencies == {"", "once", "event", "daily", "weekly", "monthly", "yearly"}
ExpanderIntervals == {null, 0 - 2, 0, 1, 2}
ExpanderStartOffsets == {0, 3, 12}
ExpanderEndOffsets == {null, 2, 28}
ExpanderHorizons == {8, 10, 30}

ExpanderTemplate(frequency, interval, start_offset_days, end_offset_days) ==
    [title |-> TitleGranular, type |-> "fertilization",
     start_offset_days |-> start_offset_days,
     end_offset_days |-> end_offset_days,
     frequency |-> frequency, interval |-> interval]

InitExpander ==
    /\ tasks = {}
    /\ nextId = 1
    /\ manualIds = {}
    /\ lastOp = NoOp
    /\ steps = 0
    /\ \E frequency \in ExpanderFrequencies, interval \in ExpanderIntervals,
          start_offset_days \in ExpanderStartOffsets,
          end_offset_days \in ExpanderEndOffsets,
          start_date \in StartDates, horizon_days \in ExpanderHorizons :
          probe = [stage |-> "input", start_date |-> start_date,
                   horizon_days |-> horizon_days,
                   tpl |-> ExpanderTemplate(frequency, interval,
                                            start_offset_days, end_offset_days)]

Expand ==
    /\ probe.stage = "input"
    /\ probe' = [stage |-> "done", start_date |-> probe.start_date,
                 horizon_days |-> probe.horizon_days, tpl |-> probe.tpl,
                 raised |-> _dates_for_template_raises(probe.start_date,
                                probe.tpl, probe.horizon_days),
                 dates |-> _dates_for_template(probe.start_date, probe.tpl,
                                               probe.horizon_days)]
    /\ UNCHANGED <<tasks, nextId, manualIds, lastOp, steps>>

NextExpander == Expand

SpecExpander == InitExpander /\ [][NextExpander]_vars

\* ------------------------------------------------------------------------
\* The specification of the evaluator's decision for one task: a task dated
\* at the target date, the store it is read from, one set of inputs, then
\* the three stages of the loop body (rule, conflict, predictor).
\* ------------------------------------------------------------------------
DecisionKinds ==
    { <<TitleWatering, "watering">>, <<TitleGranular, "fertilization">>,
      <<TitleManualCheck, "inspection">> }
DecisionMoistures == {null, 20, 35, 36}
DecisionTemperatures == {null, 11, 12, 27, 42, 43}
DecisionPredictions == {"Proceed", "Pending", "Stop"} \X {50, 69, 70, 85}
DecisionDate == 5
DecisionStores == { {}, {Row(1, TitleHormone, "hormone", DecisionDate + 1, null, "W_ALI")} }

InitDecision ==
    /\ tasks = {}
    /\ nextId = 3
    /\ manualIds = {}
    /\ lastOp = NoOp
    /\ steps = 0
    /\ \E kind \in DecisionKinds, soil_moisture \in DecisionMoistures,
          temperature \in DecisionTemperatures, ai \in DecisionPredictions,
          calendar \in EvalCalendars, rows \in DecisionStores :
          probe = [stage |-> "input",
                   task |-> Row(2, kind[1], kind[2], DecisionDate, DecisionDate, "W_BEN"),
                   rows |-> rows,
                   inp |-> [readings |-> [soil_moisture |-> soil_moisture,
                                          temperature |-> temperature],
                            calendar |-> calendar, ai |-> ai,
                            reschedule_days |-> 2]]

\* the early return: no task is decided
DecideNothing ==
    /\ probe.stage = "input"
    /\ Skipped(probe.inp)
    /\ probe' = [stage |-> "skipped", task |-> probe.task, rows |-> probe.rows,
                 inp |-> probe.inp,
                 outcome |-> EvalOutcome(probe.rows \cup {probe.task},
                                         DecisionDate, probe.inp)]
    /\ UNCHANGED <<tasks, nextId, manualIds, lastOp, steps>>

Decide ==
    /\ probe.stage = "input"
    /\ ~Skipped(probe.inp)
    /\ probe' = [stage |-> "done", task |-> probe.task, rows |-> probe.rows,
                 inp |-> probe.inp,
                 decision |-> Decision(probe.rows \cup {probe.task}, probe.task,
                                       DecisionDate, probe.inp),
                 outcome |-> EvalOutcome(probe.rows \cup {probe.task},
                                         DecisionDate, probe.inp)]
    /\ UNCHANGED <<tasks, nextId, manualIds, lastOp, steps>>

NextDecision == Decide \/ DecideNothing

SpecDecision == InitDecision /\ [][NextDecision]_vars

\* ------------------------------------------------------------------------
\* The specification of the safe-date finder as a function: a target date,
\* a rain calendar, a lookahead, a fallback delay and a task title, then
\* one call of _find_next_safe_date with the thresholds of the evaluator.
\* ------------------------------------------------------------------------
SafeDateTargets == {3, 5}
SafeDateLookaheads == {0, 1, 3, MAX_LOOKAHEAD_DAYS}
SafeDateFallbacks == {0, 2, 9}
SafeDateTitles == {TitleGranular, TitleHormone, TitleWatering, TitleManualCheck}

InitSafeDate ==
    /\ tasks = {}
    /\ nextId = 1
    /\ manualIds = {}
    /\ lastOp = NoOp
    /\ steps = 0
    /\ \E target_date \in SafeDateTargets, lookahead \in SafeDateLookaheads,
          reschedule_days \in SafeDateFallbacks, calendar \in Calendars,
          task_title \in SafeDateTitles :
          probe = [stage |-> "input", target_date |-> target_date,
                   lookahead |-> lookahead, reschedule_days |-> reschedule_days,
                   calendar |-> calendar, task_title |-> task_title]

FindSafeDate ==
    /\ probe.stage = "input"
    /\ probe' = [stage |-> "done", target_date |-> probe.target_date,
                 lookahead |-> probe.lookahead,
                 reschedule_days |-> probe.reschedule_days,
                 calendar |-> probe.calendar, task_title |-> probe.task_title,
                 found |-> _find_next_safe_date(probe.target_date,
                               probe.reschedule_days, probe.lookahead,
                               probe.calendar, rain_mm_min, rain_mm_heavy,
                               probe.task_title)]
    /\ UNCHANGED <<tasks, nextId, manualIds, lastOp, steps>>

NextSafeDate == FindSafeDate

SpecSafeDate == InitSafeDate /\ [][NextSafeDate]_vars

\* ------------------------------------------------------------------------
\* The specification of one tick of the periodic evaluation job
\* (_run_scheduled_task_evaluation, main.py): the rows the plot query
\* returned, the plots whose evaluation raises (a collaborator of the
\* evaluator fails before it writes), and the loop over the rows.
\* ------------------------------------------------------------------------
TickPlotIds == {ThePlot, "PLOT_B", "PLOT_C"}
TickToday == 5

\* the rows of the plots table in the order of the response: ids are the
\* primary key, non-empty and distinct
TickPlotLists ==
    {q \in UNION {[1..n -> TickPlotIds] : n \in 0..3} :
        \A i, j \in DOMAIN q : i # j => q[i] # q[j]}

\* what the evaluator reads during the tick (reschedule_days is 2)
TickInputs ==
    {inp \in EvalInputs : /\ inp.reschedule_days = 2
                          /\ inp.calendar = "dry"
                          /\ inp.ai = <<"Proceed", 50>>}

InitTick ==
    /\ tasks = ManualTasks
    /\ nextId = 4
    /\ manualIds = {t.id : t \in ManualTasks}
    /\ lastOp = NoOp
    /\ steps = 0
    /\ \E plot_rows \in TickPlotLists, failing \in SUBSET TickPlotIds,
          inp \in TickInputs :
          probe = [stage |-> "tick", plots |-> plot_rows, failing |-> failing,
                   inp |-> inp, pos |-> 1, calls |-> <<>>, evaluated |-> 0,
                   total_updated |-> 0,
                   \* No iteration but the one of ThePlot reads or writes
                   \* the rows of ThePlot, and ThePlot is listed once: what
                   \* its evaluation returns is what the evaluator returns
                   \* on the store the tick starts with.
                   outcome |-> EvalOutcome(ManualTasks, TickToday, inp)]

\* a loop that leaves at the first exception
NextPlot_stops_on_error(pos, raised, plot_count) ==
    IF raised THEN plot_count + 1 ELSE pos + 1

\* the for loop: the exception is caught inside the body
NextPlot(pos, raised, plot_count) == pos + 1

\* the rows of the store the evaluator of one plot can select
TickOutcome(plot_id) ==
    IF plot_id = ThePlot THEN probe.outcome
    ELSE [store |-> tasks, evaluated |-> 0, updated |-> 0]

TickReturned(plot_id, out) ==
    /\ tasks' = out.store
    /\ probe' = [probe EXCEPT !.pos = NextPlot(probe.pos, FALSE, Len(probe.plots)),
                              !.calls = Append(probe.calls, plot_id),
                              !.evaluated = probe.evaluated + 1,
                              !.total_updated = probe.total_updated + out.updated]

TickRaised(plot_id) ==
    /\ tasks' = tasks
    /\ probe' = [probe EXCEPT !.pos = NextPlot(probe.pos, TRUE, Len(probe.plots)),
                              !.calls = Append(probe.calls, plot_id)]

\* one iteration of the loop
TickEvaluate ==
    /\ probe.stage = "tick"
    /\ probe.pos <= Len(probe.plots)
    /\ IF probe.plots[probe.pos] = ""
       THEN /\ tasks' = tasks
            /\ probe' = [probe EXCEPT !.pos = probe.pos + 1]
       ELSE IF probe.plots[probe.pos] \in probe.failing
       THEN TickRaised(probe.plots[probe.pos])
       ELSE TickReturned(probe.plots[probe.pos],
                         TickOutcome(probe.plots[probe.pos]))
    /\ UNCHANGED <<nextId, manualIds, lastOp, steps>>

\* the summary after the loop
TickEnd ==
    /\ probe.stage = "tick"
    /\ probe.pos > Len(probe.plots)
    /\ probe' = [probe EXCEPT !.stage = "ended"]
    /\ UNCHANGED <<tasks, nextId, manualIds, lastOp, steps>>

NextTick == TickEvaluate \/ TickEnd

\* the job runs on a thread of the background scheduler, which keeps
\* running it until it returns
SpecTick == InitTick /\ [][NextTick]_vars /\ WF_vars(NextTick)

\* ------------------------------------------------------------------------
\* The specification of a generate-schedule call and an
\* evaluate-status-threshold call that run at the same time on the plot:
\* nothing in the code excludes one from the other, so the store operations
\* of the two handlers interleave in every order.  `probe` holds the
\* position of each handler and what it has read.
\* ------------------------------------------------------------------------
RaceDates == {2, 5}
RaceInputs ==
    {inp \in EvalInputs : inp.readings # NoReadings /\ inp.reschedule_days = 2}

InitRace ==
    /\ tasks = ManualTasks
    /\ nextId = 4
    /\ manualIds = {t.id : t \in ManualTasks}
    /\ lastOp = NoOp
    /\ steps = 0
    /\ \E start_date \in StartDates, mode \in Modes, horizon_days \in Horizons,
          target_date \in RaceDates, inp \in RaceInputs :
          probe = [stage |-> "race", gpc |-> "start", epc |-> "start",
                   start_date |-> start_date, mode |-> mode,
                   horizon_days |-> horizon_days, target_date |-> target_date,
                   inp |-> inp, plan |-> <<>>, selected |-> {}, dec |-> <<>>,
                   ewrote |-> {}]

\* schedule.py 369-382: the delete of overwrite mode
RaceGenerateDelete ==
    /\ probe.stage = "race" /\ probe.gpc = "start"
    /\ tasks' = KeptByMode(tasks, probe.start_date, probe.mode, probe.horizon_days)
    /\ probe' = [probe EXCEPT !.gpc = "deleted"]
    /\ UNCHANGED <<nextId, manualIds, lastOp, steps>>

\* schedule.py 384-446: the read of the persisted tasks, and the conflict
\* resolution computed on what was read
RaceGenerateRead ==
    /\ probe.stage = "race" /\ probe.gpc = "deleted"
    /\ probe' = [probe EXCEPT
                   !.gpc = "read",
                   !.plan = GenerationPlan(
                                ExistingForConflictCheck(tasks, probe.start_date,
                                                         probe.horizon_days),
                                probe.start_date, probe.horizon_days, nextId)]
    /\ UNCHANGED <<tasks, nextId, manualIds, lastOp, steps>>

\* the update of one persisted task by id: the columns of update_payload
WrittenByGenerate(cur, resolved) ==
    [cur EXCEPT !.task_date = resolved.task_date,
                !.proposed_date = resolved.proposed_date,
                !.status = resolved.status,
                !.reason = resolved.reason,
                !.original_date = resolved.original_date,
                !.reschedule_type = resolved.reschedule_type,
                !.reschedule_visible = resolved.reschedule_visible]

\* schedule.py 448-462: the updates of the persisted tasks in conflict
RaceGenerateUpdate ==
    /\ probe.stage = "race" /\ probe.gpc = "read"
    /\ tasks' = {IF \E w \in probe.plan.updates : w.id = r.id
                 THEN WrittenByGenerate(r, CHOOSE w \in probe.plan.updates :
                                                w.id = r.id)
                 ELSE r : r \in tasks}
    /\ probe' = [probe EXCEPT !.gpc = "updated"]
    /\ UNCHANGED <<nextId, manualIds, lastOp, steps>>

\* schedule.py 464-503: worker assignment and the insert
RaceGenerateInsert ==
    /\ probe.stage = "race" /\ probe.gpc = "updated"
    /\ tasks' = tasks \cup probe.plan.inserts
    /\ nextId' = nextId + probe.plan.created
    /\ probe' = [probe EXCEPT !.gpc = "done"]
    /\ UNCHANGED <<manualIds, lastOp, steps>>

\* schedule.py 693-701: the select of the tasks of the date
RaceEvaluateRead ==
    /\ probe.stage = "race" /\ probe.epc = "start"
    /\ probe' = [probe EXCEPT !.epc = "read",
                              !.selected = SelectedTasks(tasks, probe.target_date)]
    /\ UNCHANGED <<tasks, nextId, manualIds, lastOp, steps>>

\* schedule.py 795-999: the loop; its conflict stage reads the store
RaceEvaluateDecide ==
    /\ probe.stage = "race" /\ probe.epc = "read"
    /\ probe' = [probe EXCEPT
                   !.epc = "decided",
                   !.dec = [t \in probe.selected |->
                              Decision(tasks, t, probe.target_date, probe.inp)]]
    /\ UNCHANGED <<tasks, nextId, manualIds, lastOp, steps>>

\* the tasks on the update list
RaceUpdates == {t \in probe.selected : should_update(t, probe.dec[t])}

\* what the evaluator wrote to a task
WrittenValues(t, d) ==
    [id |-> t.id, status |-> d.status, reason |-> d.reason,
     proposed_date |-> d.proposed_date]

\* schedule.py 1001-1018: the updates by id
RaceEvaluateWrite ==
    /\ probe.stage = "race" /\ probe.epc = "decided"
    /\ tasks' = {IF \E t \in RaceUpdates : t.id = r.id
                 THEN EvaluatedRow(r, probe.dec[CHOOSE t \in RaceUpdates :
                                                     t.id = r.id],
                                   probe.target_date)
                 ELSE r : r \in tasks}
    /\ probe' = [probe EXCEPT
                   !.epc = "done",
                   !.ewrote = {WrittenValues(t, probe.dec[t]) : t \in RaceUpdates}]
    /\ UNCHANGED <<nextId, manualIds, lastOp, steps>>

NextRace ==
    \/ RaceGenerateDelete \/ RaceGenerateRead \/ RaceGenerateUpdate
    \/ RaceGenerateInsert
    \/ RaceEvaluateRead \/ RaceEvaluateDecide \/ RaceEvaluateWrite

SpecRace == InitRace /\ [][NextRace]_vars

\* ========================================================================
\* Properties
\* ========================================================================
RowOf(rows, id) == CHOOSE t \in rows : t.id = id

AfterCutoff(rows, task) ==
    /\ get_processing_cutoff_date(rows) # null
    /\ task.task_date > get_processing_cutoff_date(rows)

InsideWindowOf(task, hormone) ==
    /\ hormone.task_date <= task.task_date
    /\ task.task_date <= hormone.task_date + get_buffer_days(hormone)

\* C1: in every state of the store, no fertiliser-type task is dated inside
\* [h, h + buffer_days] of a hormone task h of the same plot, unless the
\* fertiliser task is dated after the processing-cutoff task.
C1_NoFertiliserInsideHormoneWindow ==
    \A f \in tasks, h \in tasks :
        (/\ is_fertiliser_task(f)
         /\ is_hormone_task(h)
         /\ f.plot_id = h.plot_id
         /\ ~AfterCutoff(tasks, f))
        => ~InsideWindowOf(f, h)

\* C2 as stated: no step lowers the stored status of a task, except
\* approve-reschedule; in particular evaluate-status-threshold never writes
\* a status lower than the stored one.
C2_StoredStatusOnlyLoweredByApprove ==
    [][\A t \in tasks, u \in tasks' :
          (t.id = u.id /\ Rank(u.status) < Rank(t.status))
          => lastOp'.op = "approve"]_vars

\* C2 as amended: within one evaluation pass the status of a task only
\* escalates from stage to stage: for every call the evaluator can make on
\* the store, the status after the conflict stage is not lower than the
\* rule-stage status and the final status (after the predictor) is not
\* lower than the status after the conflict stage.
C2_PassOnlyEscalates ==
    steps < MaxSteps =>
        \A target_date \in EvalDates, inp \in EvalInputs :
            \A t \in SelectedTasks(tasks, target_date) :
                LET d == Decision(tasks, t, target_date, inp)
                IN /\ Rank(d.rule) <= Rank(d.conflict)
                   /\ Rank(d.conflict) <= Rank(d.status)

\* a stored row that the predictor escalated from a rule-stage Proceed
C2_Witness ==
    \E t \in tasks :
        /\ t.status = "Stop"
        /\ t.reason = <<"Proceed (thresholds OK)">> \o AiReason("Stop", 85)

\* C3: no step changes a non-null original_date of a task.
C3_OriginalDateNeverChanges ==
    [][\A t \in tasks, u \in tasks' :
          (t.id = u.id /\ t.original_date # null)
          => u.original_date = t.original_date]_vars

\* C4: from every state in which the evaluator can run, running it twice
\* in a row for the same date with the same readings, calendar, predictor
\* output and reschedule_days writes no task on the second run
\* (tasks_updated = 0).
C4_SecondRunWritesNothing ==
    steps < MaxSteps =>
        \A target_date \in EvalDates, inp \in EvalInputs :
            EvalOutcome(EvalOutcome(tasks, target_date, inp).store,
                        target_date, inp).updated = 0

\* a run that evaluated tasks carrying the evaluator's proposal and wrote none
C4_Witness ==
    /\ lastOp.op = "evaluate"
    /\ lastOp.evaluated > 0
    /\ lastOp.updated = 0
    /\ \E t \in tasks : /\ t.status = "Pending"
                        /\ t.proposed_date # null
                        /\ t.approval_state = "pending"
                        /\ t.original_date = t.task_date

\* C5 as stated: every row written by the evaluator or by the insight path
\* with a non-null proposed_date gets a proposed_date that differs from the
\* stored proposed_date and from the task_date.
C5_WrittenProposedDateIsNew ==
    [][lastOp'.op \in {"evaluate", "insight"} =>
          \A t \in tasks, u \in tasks' :
              (t.id = u.id /\ u # t /\ u.proposed_date # null)
              => /\ u.proposed_date # t.proposed_date
                 /\ u.proposed_date # t.task_date]_vars

ReviewedFieldsDiffer(t, u) ==
    \/ u.status # t.status
    \/ u.proposed_date # t.proposed_date
    \/ u.reason # t.reason

\* C5 as amended: the evaluator writes a task exactly when the status,
\* proposed_date or reason it computed differs from the stored one (the
\* proposed_date it writes may be the stored one, and may be the
\* task_date); the insight path writes a task only for a suggested date
\* that differs from the stored proposed_date, and writes that date or,
\* for a fertiliser task, a later one.
C5_WritesFollowAChange ==
    [][/\ lastOp'.op = "evaluate" =>
            /\ \A t \in tasks, u \in tasks' :
                   (t.id = u.id /\ u # t) => ReviewedFieldsDiffer(t, u)
            /\ lastOp'.updated =
                   Cardinality({t \in tasks :
                       ReviewedFieldsDiffer(t, RowOf(tasks', t.id))})
       /\ (lastOp'.op = "insight" /\ lastOp'.updated = 1) =>
            LET t == RowOf(tasks, lastOp'.id)
                u == RowOf(tasks', lastOp'.id)
            IN IF is_fertiliser_task(t)
               THEN \E delay_days \in InsightDelays :
                       /\ suggest_date_for_task(t, delay_days) # t.proposed_date
                       /\ u.proposed_date >= suggest_date_for_task(t, delay_days)
               ELSE u.proposed_date # t.proposed_date
      ]_vars

\* a row the evaluator rewrote with a proposed_date next to a Stop status
C5_Witness ==
    /\ lastOp.op = "evaluate"
    /\ lastOp.updated > 0
    /\ \E t \in tasks : /\ t.proposed_date # null
                        /\ t.proposed_date > t.task_date
                        /\ t.status = "Stop"

\* C6: a successful approve-reschedule of a task with proposed_date P
\* leaves it with task_date = P, proposed_date null and status Proceed, and
\* leaves original_date, plot, title and worker assignment unchanged.
C6_ApproveMovesTheTask ==
    [][(lastOp'.op = "approve" /\ lastOp'.ok /\ steps' = steps + 1) =>
          LET t == RowOf(tasks, lastOp'.id)
              u == RowOf(tasks', lastOp'.id)
          IN /\ t.proposed_date # null
             /\ u.task_date = t.proposed_date
             /\ u.proposed_date = null
             /\ u.status = "Proceed"
             /\ u.original_date = t.original_date
             /\ u.plot_id = t.plot_id
             /\ u.title = t.title
             /\ u.assigned_worker_id = t.assigned_worker_id]_vars

\* an approved task whose original_date differs from its new task_date
C6_Witness ==
    /\ lastOp.op = "approve"
    /\ lastOp.ok
    /\ \E t \in tasks : /\ t.id = lastOp.id
                        /\ t.original_date # null
                        /\ t.original_date # t.task_date
                        /\ t.status = "Proceed"

\* C7: a successful reject-reschedule clears proposed_date, keeps
\* task_date, and leaves the status Pending if it was Proceed or empty and
\* unchanged otherwise; the rejected task is never left in status Proceed.
C7_RejectKeepsTheTaskHeld ==
    [][(lastOp'.op = "reject" /\ lastOp'.ok /\ steps' = steps + 1) =>
          LET t == RowOf(tasks, lastOp'.id)
              u == RowOf(tasks', lastOp'.id)
          IN /\ t.proposed_date # null
             /\ u.proposed_date = null
             /\ u.task_date = t.task_date
             /\ u.status = IF t.status \in {"Proceed", ""} THEN "Pending"
                           ELSE t.status
             /\ u.status # "Proceed"]_vars

\* a rejected task
C7_Witness ==
    /\ lastOp.op = "reject"
    /\ lastOp.ok
    /\ \E t \in tasks : /\ t.id = lastOp.id
                        /\ t.proposed_date = null
                        /\ t.status \in {"Pending", "Stop"}
                        /\ t.reason[Len(t.reason)] = "Rejected by manager"

\* C8: after a successful approve-reschedule the task's approval_state is
\* approved and after a successful reject-reschedule it is rejected.
C8_DecisionEndsTheProposal ==
    /\ (lastOp.op = "approve" /\ lastOp.ok)
          => RowOf(tasks, lastOp.id).approval_state = "approved"
    /\ (lastOp.op = "reject" /\ lastOp.ok)
          => RowOf(tasks, lastOp.id).approval_state = "rejected"

\* C9: a task that was entered by hand (created with original_date null)
\* is never deleted.
C9_ManualTasksSurvive == manualIds \subseteq TaskIds

\* ------------------------------------------------------------------------
\* The resolver on its own
\* ------------------------------------------------------------------------
ProbeWindows ==
    build_hormone_windows(ResolverTasks(probe.chain, probe.spacing, probe.cutoff))

\* the windows that contain the day
WindowsContaining(day, windows) ==
    {w \in windows : w[1] <= day /\ day <= w[1] + w[2]}

LatestEnd(day, windows) ==
    Max({w[1] + w[2] : w \in WindowsContaining(day, windows)})

\* a day the resolver may use: covered by no window, or after the cutoff
UsableDay(day, windows, cutoff) ==
    \/ WindowsContaining(day, windows) = {}
    \/ cutoff # null /\ day > cutoff

\* the earliest usable day strictly after `after`
EarliestUsableAfter(after, windows, cutoff) ==
    LET last == Max({w[1] + w[2] : w \in windows} \cup {after})
    IN Min({d \in (after + 1)..(last + 1) : UsableDay(d, windows, cutoff)})

ProbeConflict ==
    /\ probe.stage = "done"
    /\ WindowsContaining(probe.fert_date, ProbeWindows) # {}
    /\ ~(probe.cutoff # null /\ probe.fert_date > probe.cutoff)

\* C10 as stated: the resolved date of a conflicting fertiliser task is the
\* earliest usable day strictly after the latest end of the windows that
\* contain its date; with a single hormone task it is h + 8.
C10_ResolvedDateIsEarliestUsable ==
    ProbeConflict =>
        /\ probe.updated
        /\ probe.task.task_date =
              EarliestUsableAfter(LatestEnd(probe.fert_date, ProbeWindows),
                                  ProbeWindows, probe.cutoff)
        /\ probe.chain = 1 => probe.task.task_date = 0 + 8

\* C10 as amended: the resolved date is the earliest usable day among the
\* max_lookahead_days days that follow the latest end of the windows that
\* contain the task date, and the day after those when none of them is
\* usable; with a single hormone task it is h + 8.
C10_ResolvedDateWithinLookahead ==
    ProbeConflict =>
        LET end == LatestEnd(probe.fert_date, ProbeWindows)
            examined == {d \in (end + 1)..(end + max_lookahead_days) :
                            UsableDay(d, ProbeWindows, probe.cutoff)}
        IN /\ probe.updated
           /\ probe.task.task_date =
                 IF examined # {} THEN Min(examined)
                 ELSE end + max_lookahead_days + 1
           /\ probe.chain = 1 => probe.task.task_date = 0 + 8

\* a task moved past several chained windows
C10_Witness ==
    /\ ProbeConflict
    /\ probe.chain > 2
    /\ probe.task.task_date > probe.fert_date + 2 * DEFAULT_HORMONE_BUFFER_DAYS

\* the date the resolver is to give the task of the probe
ProbeResolvedDate ==
    LET end == LatestEnd(probe.fert_date, ProbeWindows)
        examined == {d \in (end + 1)..(end + max_lookahead_days) :
                        UsableDay(d, ProbeWindows, probe.cutoff)}
    IN IF examined # {} THEN Min(examined) ELSE end + max_lookahead_days + 1

\* C11: a task the resolver resolves in shift mode with proposal creation
\* ends with proposed_date = task_date = the resolved date, with status
\* Pending if it was Proceed or empty and its former status otherwise, with
\* its original_date kept if set and otherwise set to the former task_date,
\* and with the fixed conflict note as the last part of its reason, after
\* the parts of the former reason that are not internal notes.
C11_ShiftWithProposal ==
    ProbeConflict =>
        /\ probe.task.proposed_date = ProbeResolvedDate
        /\ probe.task.task_date = ProbeResolvedDate
        /\ probe.task.status = IF probe.variant.status \in {"Proceed", ""}
                               THEN "Pending" ELSE probe.variant.status
        /\ probe.task.original_date = IF probe.variant.original_date # null
                                      THEN probe.variant.original_date
                                      ELSE probe.fert_date
        /\ probe.task.reason =
              SelectSeq(probe.variant.reason, NotInternalPart)
              \o <<FERTILISER_HORMONE_CONFLICT_REASON>>

\* a resolved task that was stopped and keeps its status
C11_Witness ==
    /\ ProbeConflict
    /\ probe.variant.status = "Stop"
    /\ probe.task.status = "Stop"
    /\ probe.task.proposed_date = probe.task.task_date
    /\ probe.task.task_date > probe.fert_date
    /\ probe.task.original_date = probe.fert_date

\* a row of the next state whose task_date generate-schedule moved: a new
\* row that is not dated at its original_date, or a stored row with a new
\* task_date
MovedAtGeneration(u) ==
    \/ u.id >= nextId /\ u.task_date # u.original_date
    \/ \E t \in tasks : t.id = u.id /\ t.task_date # u.task_date

HiddenConflictRow(u) ==
    /\ u.reschedule_type = RESCHEDULE_TYPE_CONFLICT
    /\ u.reschedule_visible = "false"
    /\ ~InPendingQueue(u)

\* C12 as stated: a task that generate-schedule moves out of a hormone
\* window is stored with reschedule_type conflict-buffer and
\* reschedule_visible false and is not in the pending-reschedule queue, and
\* so is every task the evaluator writes with a proposed_date that its
\* conflict stage moved.
C12_ResolvedTasksAreHidden ==
    [][/\ lastOp'.op = "generate" =>
            \A u \in tasks' : MovedAtGeneration(u) => HiddenConflictRow(u)
       /\ steps < MaxSteps =>
            \A target_date \in EvalDates, inp \in EvalInputs :
                \A t \in SelectedTasks(tasks, target_date) :
                    (/\ ~Skipped(inp)
                     /\ Decision(tasks, t, target_date, inp).adjusted
                     /\ should_update(t, Decision(tasks, t, target_date, inp)))
                    => HiddenConflictRow(
                           EvaluatedRow(t, Decision(tasks, t, target_date, inp),
                                        target_date))
      ]_vars

\* C12 as amended: a task that generate-schedule moves out of a hormone
\* window is stored with reschedule_type conflict-buffer and
\* reschedule_visible false and is not in the pending-reschedule queue;
\* every task the evaluator writes with a proposed_date, a date moved by
\* its conflict stage included, is stored with reschedule_type threshold,
\* reschedule_visible true and approval_state pending, and is in the queue.
C12_TaggingByOperation ==
    [][/\ lastOp'.op = "generate" =>
            \A u \in tasks' : MovedAtGeneration(u) => HiddenConflictRow(u)
       /\ lastOp'.op = "evaluate" =>
            \A t \in tasks, u \in tasks' :
                (t.id = u.id /\ u # t /\ u.proposed_date # null)
                => /\ u.reschedule_type = RESCHEDULE_TYPE_THRESHOLD
                   /\ u.reschedule_visible = "true"
                   /\ u.approval_state = "pending"
                   /\ InPendingQueue(u)
      ]_vars

\* a fertiliser proposal the conflict stage moved past a hormone window,
\* stored as a threshold reschedule and listed in the queue
C12_Witness ==
    /\ lastOp.op = "evaluate"
    /\ \E u \in tasks :
          /\ is_fertiliser_task(u)
          /\ u.proposed_date # null
          /\ u.proposed_date - u.task_date > MAX_LOOKAHEAD_DAYS
          /\ u.reschedule_type = RESCHEDULE_TYPE_THRESHOLD
          /\ InPendingQueue(u)

\* ---- the template expander ----
ProbeBase == probe.start_date + probe.tpl.start_offset_days

ProbeEndDate ==
    IF probe.tpl.end_offset_days # null
    THEN probe.start_date + probe.tpl.end_offset_days
    ELSE probe.start_date + probe.horizon_days

ProbeUnitDays ==
    CASE probe.tpl.frequency = "daily" -> 1
      [] probe.tpl.frequency = "weekly" -> 7
      [] probe.tpl.frequency = "monthly" -> 30

\* C14: a daily, weekly or monthly template with interval n >= 1 expands
\* to exactly the dates base + k * step (k = 0, 1, 2, ...) that are on or
\* before the end date, in increasing order, where step is n, 7 * n or
\* 30 * n days.
C14_RecurringDatesAreTheMultiplesOfStep ==
    (/\ probe.stage = "done"
     /\ probe.tpl.frequency \in {"daily", "weekly", "monthly"}
     /\ probe.tpl.interval >= 1)
    => LET step == ProbeUnitDays * probe.tpl.interval
       IN /\ ~probe.raised
          /\ \A i \in 1..Len(probe.dates) :
                probe.dates[i] = ProbeBase + (i - 1) * step
          /\ Len(probe.dates) =
                Cardinality({d \in ProbeBase..ProbeEndDate :
                               (d - ProbeBase) % step = 0})

\* the weekly template of interval 2 with offsets 0..28 gave days 0, 14, 28
C14_Witness ==
    /\ probe.stage = "done"
    /\ probe.tpl.frequency = "weekly"
    /\ probe.tpl.interval = 2
    /\ probe.tpl.start_offset_days = 0
    /\ probe.tpl.end_offset_days = 28
    /\ probe.dates = <<probe.start_date, probe.start_date + 14,
                       probe.start_date + 28>>

\* the expansion of the template with interval 1 in place of its interval
ProbeDatesWithIntervalOne ==
    _dates_for_template(probe.start_date, [probe.tpl EXCEPT !.interval = 1],
                        probe.horizon_days)

\* C15: the expansion of every template returns a finite sequence of
\* dates, none after the end date; a template whose interval is zero or
\* negative is rejected (no date) or expanded as if its interval were 1;
\* a template without end offset stops at the horizon.
C15_ExpansionTerminates ==
    probe.stage = "done"
    => /\ ~probe.raised
       /\ \A i \in 1..Len(probe.dates) :
             ProbeBase <= probe.dates[i] /\ probe.dates[i] <= ProbeEndDate
       /\ (probe.tpl.interval # null /\ probe.tpl.interval <= 0)
          => probe.dates \in {<<>>, ProbeDatesWithIntervalOne}

\* ---- worker assignment ----
Rosters == {<<"W_ALI">>, <<"W_ALI", "W_BEN">>, <<"W_ALI", "W_BEN", "W_CHE">>}
PlotDigests == 0..6

\* C16: with n >= 1 active workers in name order and s = digest of the
\* plot id modulo n, generate-schedule stores the i-th task it creates
\* (i from 0) with worker (s + i) mod n of the roster; the worker of an
\* index depends on the plot id, the roster and the index only.
C16_RoundRobinFromStableStart ==
    [][/\ lastOp'.op = "generate" =>
            \A u \in tasks' :
                u.id >= nextId
                => u.assigned_worker_id =
                     active_workers[(((PlotDigest % Len(active_workers))
                                      + (u.id - nextId)) % Len(active_workers)) + 1]
       /\ \A workers \in Rosters, plot_digest \in PlotDigests, i \in 0..4 :
            SelectedWorker(workers, plot_digest, i) =
                workers[(((plot_digest % Len(workers)) + i) % Len(workers)) + 1]
      ]_vars

\* a run that created three tasks or more: the first went to the worker at
\* the start index, the second to the next one, the third wrapped around
C16_Witness ==
    /\ lastOp.op = "generate"
    /\ lastOp.updated >= 3
    /\ LET first == nextId - lastOp.updated
       IN /\ \A i \in 0..2 : \E u \in tasks : u.id = first + i
          /\ RowOf(tasks, first).assigned_worker_id = "W_BEN"
          /\ RowOf(tasks, first + 1).assigned_worker_id = "W_ALI"
          /\ RowOf(tasks, first + 2).assigned_worker_id = "W_BEN"

\* ---- the stages of the evaluator ----
\* by how much each applicable limit is breached by the readings of the probe
ProbeBreaches ==
    LET m == probe.inp.readings.soil_moisture
        temp == probe.inp.readings.temperature
        type == probe.task.type
    IN (IF type \in {"watering", "irrigation"} /\ m # null /\ m > soil_moisture_max
        THEN {m - soil_moisture_max} ELSE {})
       \cup (IF type \in {"weeding", "land-prep", "fertilization"} /\ m # null
                /\ m > soil_moisture_field_max
             THEN {m - soil_moisture_field_max} ELSE {})
       \cup (IF temp # null /\ temp > temperature_max
             THEN {temp - temperature_max} ELSE {})
       \cup (IF temp # null /\ temp < temperature_min
             THEN {temperature_min - temp} ELSE {})

\* C17: in the rule stage a breach of an applicable limit by more than the
\* stop buffer (10) is Stop-level and a breach of at most 10, exactly 10
\* included, is Pending-level; the rule status is Stop when some breach is
\* Stop-level, else Pending when some breach is Pending-level, else Proceed.
C17_RuleStatusFromBreaches ==
    probe.stage = "done"
    => probe.decision.rule =
         IF \E delta \in ProbeBreaches : delta > 10 THEN "Stop"
         ELSE IF ProbeBreaches # {} THEN "Pending"
         ELSE "Proceed"

\* a breach of exactly 10 and no other breach: Pending
C17_Witness ==
    /\ probe.stage = "done"
    /\ ProbeBreaches = {10}
    /\ probe.inp.readings.temperature = temperature_max + 10
    /\ probe.decision.rule = "Pending"

\* C18: the final status is never lower than the status after the rule and
\* conflict stages; a predicted Pending turns Proceed into Pending at any
\* confidence; a predicted Stop turns Proceed or Pending into Stop exactly
\* when its confidence is at least 0.70; a predicted Proceed, and a
\* predicted Stop below 0.70, change nothing.
C18_PredictorOnlyEscalates ==
    probe.stage = "done"
    => LET d == probe.decision
           label == probe.inp.ai[1]
           conf == probe.inp.ai[2]
       IN /\ Rank(d.status) >= Rank(d.conflict)
          /\ (label = "Pending" /\ d.conflict = "Proceed") => d.status = "Pending"
          /\ (label = "Stop" /\ d.conflict \in {"Proceed", "Pending"})
             => (d.status = "Stop" <=> conf >= 70)
          /\ (label = "Proceed" \/ (label = "Stop" /\ conf < 70))
             => /\ d.status = d.conflict
                /\ d.reason = d.conflict_reason
                /\ d.proposed_date = d.conflict_date

\* a predicted Stop at exactly 0.70 turned a Pending task into Stop
C18_Witness ==
    /\ probe.stage = "done"
    /\ probe.inp.ai = <<"Stop", 70>>
    /\ probe.decision.conflict = "Pending"
    /\ probe.decision.status = "Stop"

\* C19: when the predictor escalates the status, the reason of the
\* decision (the reason that is persisted) is the rationale of the rule
\* stage followed, after the separator, by the AI rationale.
C19_EscalationKeepsRuleRationale ==
    (probe.stage = "done" /\ probe.decision.status # probe.decision.conflict)
    => /\ Len(probe.decision.rule_reason) > 0
       /\ probe.decision.reason =
             probe.decision.rule_reason
             \o AiReason(probe.inp.ai[1], probe.inp.ai[2])

\* the rules computed Proceed, the predictor said Stop at 0.85
C19_Witness ==
    /\ probe.stage = "done"
    /\ probe.decision.rule = "Proceed"
    /\ probe.inp.ai = <<"Stop", 85>>
    /\ probe.decision.status = "Stop"
    /\ probe.decision.reason =
         <<"Proceed (thresholds OK)", "AI predicted Stop (conf 85)">>

\* ---- the safe-date finder ----
\* the rain of a day of the probe's calendar, a missing day counting as 0
ProbeRain(day) ==
    CASE probe.calendar = "dry" -> 0
      [] probe.calendar = "showers" -> 3
      [] probe.calendar = "storm" -> 11
      [] probe.calendar = "clearing" ->
            (IF day \in {6, 7} THEN 11 ELSE IF day \in {8, 9} THEN 3 ELSE 0)
      [] probe.calendar = "passing" ->
            (IF day = 6 THEN 3 ELSE IF day = 7 THEN 11 ELSE 0)

ProbeSafeDays ==
    {d \in (probe.target_date + 1)..(probe.target_date + probe.lookahead) :
        /\ ProbeRain(d) < rain_mm_heavy
        /\ \/ ProbeRain(d) < rain_mm_min
           \/ probe.task_title \notin RainSensitiveTitles}

\* C20: the safe-date finder returns the earliest day d of
\* target+1 .. target+lookahead with rain(d) < rain_mm_heavy and
\* (rain(d) < rain_mm_min or the task is not rain-sensitive), a day missing
\* from the calendar counting as 0 mm; when no day of the range qualifies it
\* returns target + reschedule_days with the fallback rationale.
C20_SafeDateIsEarliestSafeDay ==
    probe.stage = "done"
    => IF ProbeSafeDays # {}
       THEN /\ probe.found.date = Min(ProbeSafeDays)
            /\ probe.found.rationale # "Fallback: no safe day found within window."
       ELSE /\ probe.found.date = probe.target_date + probe.reschedule_days
            /\ probe.found.rationale = "Fallback: no safe day found within window."

\* a rain-sensitive task under the clearing forecast: two days of heavy
\* rain and two of showers are passed over, the first day missing from the
\* forecast is returned
C20_Witness ==
    /\ probe.stage = "done"
    /\ probe.calendar = "clearing"
    /\ probe.task_title \in RainSensitiveTitles
    /\ probe.target_date = 5
    /\ probe.found.date = 10

\* ---- validation of generate-schedule ----
\* C21: a generate-schedule call that fails its validation (unknown plot,
\* or no active template and allow_no_templates false) deletes, updates
\* and inserts nothing: the task store after the call is the store before.
C21_RejectedGenerateWritesNothing ==
    [][(lastOp'.op = "generate" /\ ~lastOp'.ok)
       => /\ tasks' = tasks
          /\ nextId' = nextId]_vars

\* a rejected call on a store that holds generated tasks of the window the
\* overwrite mode deletes
C21_Witness ==
    /\ lastOp.op = "generate"
    /\ ~lastOp.ok
    /\ \E start_date \in StartDates, horizon_days \in Horizons :
          PurgedByOverwrite(tasks, start_date, horizon_days) # {}

\* ---- the periodic evaluation job ----
IsPrefix(p, q) == Len(p) <= Len(q) /\ \A i \in 1..Len(p) : p[i] = q[i]

\* C22: in one tick the evaluator is called for the plots of the query in
\* order, each once; an exception of one call does not keep the later
\* plots from being evaluated, and the tick runs to its end.
C22_TickEvaluatesEveryPlot ==
    /\ [](probe.stage \in {"tick", "ended"} => IsPrefix(probe.calls, probe.plots))
    /\ (probe.stage = "tick")
         ~> (probe.stage = "ended" /\ probe.calls = probe.plots)

\* the tick ended after the evaluation of the first plot raised and the
\* plots after it were evaluated
C22_Witness ==
    /\ probe.stage = "ended"
    /\ Len(probe.plots) = 3
    /\ probe.plots[1] \in probe.failing
    /\ probe.plots[2] \notin probe.failing
    /\ probe.calls = probe.plots
    /\ probe.evaluated >= 1

\* ---- missing readings ----
\* the inputs of the probe with an in-range value in place of a missing one
ProbeInputsFilled ==
    [probe.inp EXCEPT !.readings =
        [soil_moisture |-> IF probe.inp.readings.soil_moisture = null THEN 20
                           ELSE probe.inp.readings.soil_moisture,
         temperature |-> IF probe.inp.readings.temperature = null THEN 27
                         ELSE probe.inp.readings.temperature]]

\* C23: a call with neither a temperature nor a soil-moisture value, and
\* no other call, returns the skipped result: it updates no task.  With
\* one of the two values missing the rules of the value that is present
\* decide: the rule status is the one an in-range value in place of the
\* missing one would give.
C23_MissingReadingsSkipOnlyTheirRules ==
    /\ probe.stage \in {"skipped", "done"}
       => (probe.stage = "skipped"
           <=> /\ probe.inp.readings.temperature = null
               /\ probe.inp.readings.soil_moisture = null)
    /\ probe.stage = "skipped"
       => /\ probe.outcome.store = probe.rows \cup {probe.task}
          /\ probe.outcome.updated = 0
    /\ probe.stage = "done"
       => probe.decision.rule =
            RuleStage(probe.task, DecisionDate, ProbeInputsFilled).status

\* no temperature, and the soil moisture alone stopped a watering task
C23_Witness ==
    /\ probe.stage = "done"
    /\ probe.inp.readings.temperature = null
    /\ probe.task.type = "watering"
    /\ probe.decision.rule = "Stop"
    /\ probe.outcome.updated = 1

\* ---- the dates of persisted tasks ----
\* C24: generate-schedule never changes the task_date of a task that was
\* stored before the call; the task_date of a stored task changes through
\* approve-reschedule only.
C24_OnlyApproveMovesStoredTasks ==
    [][\A t \in tasks, u \in tasks' :
          (t.id = u.id /\ u.task_date # t.task_date)
          => lastOp'.op = "approve"]_vars

\* ---- the stored reason ----
\* C25: the stored reason of a task is append-only: after every operation
\* the stored reason still holds every part it held before.
C25_StoredReasonIsAppendOnly ==
    [][\A t \in tasks, u \in tasks' :
          t.id = u.id => Range(t.reason) \subseteq Range(u.reason)]_vars

\* ---- Pending and its proposal ----
\* C26: every task that evaluate-status-threshold writes with status
\* Pending is written with a proposed_date, and that date is after the
\* evaluation date (the task_date of the tasks the call selects).
C26_PendingCarriesALaterProposal ==
    [][lastOp'.op = "evaluate"
       => \A t \in tasks, u \in tasks' :
             (t.id = u.id /\ u # t /\ u.status = "Pending")
             => /\ u.proposed_date # null
                /\ u.proposed_date > u.task_date]_vars

\* ---- the bound of the resolver's scan ----
\* the first candidate of the scan for the task of the probe
ProbeScanStart == LatestEnd(probe.fert_date, ProbeWindows) + 1

\* C27: the scan of the resolver ends after at most max_lookahead_days
\* (120) candidates: a conflicting task is always resolved (never dropped)
\* to a date from the scan start to 120 days after it, and when every
\* candidate examined is blocked the date is the candidate the scan ended
\* on, 120 days after the scan start.
C27_ScanIsBoundedAndNeverDrops ==
    ProbeConflict
    => /\ probe.updated
       /\ probe.task.task_date >= ProbeScanStart
       /\ probe.task.task_date <= ProbeScanStart + max_lookahead_days
       /\ probe.task.proposed_date = probe.task.task_date
       /\ (\A d \in ProbeScanStart..(ProbeScanStart + max_lookahead_days - 1) :
               ~UsableDay(d, ProbeWindows, probe.cutoff))
          => probe.task.task_date = ProbeScanStart + max_lookahead_days

\* a chain of windows that blocks all 120 candidates: the task is given
\* the date the scan ended on
C27_Witness ==
    /\ ProbeConflict
    /\ \A d \in ProbeScanStart..(ProbeScanStart + max_lookahead_days - 1) :
          ~UsableDay(d, ProbeWindows, probe.cutoff)
    /\ probe.task.task_date = ProbeScanStart + max_lookahead_days

\* ---- generating twice ----
\* the store after a generate-schedule call in overwrite mode for the plot
\* of the model and its templates
OverwriteOnce(rows, start_date, horizon_days, firstId) ==
    StoreAfterGenerate(rows, ThePlot, task_templates, start_date, "overwrite",
                       horizon_days, firstId)

CreatedBy(start_date, horizon_days) ==
    Len(BuildDrafts(1, task_templates, start_date, horizon_days, 0))

\* C28: two generate-schedule calls in a row in overwrite mode with the
\* same plot, start date, horizon, templates and workers leave no task of
\* the first call behind: the generated tasks of the store are those of
\* the second call, one per template and date.
C28_OverwriteTwiceLeavesNoDuplicate ==
    \A start_date \in StartDates, horizon_days \in Horizons :
        LET created == CreatedBy(start_date, horizon_days)
            once == OverwriteOnce(tasks, start_date, horizon_days, nextId)
            twice == OverwriteOnce(once, start_date, horizon_days,
                                   nextId + created)
        IN /\ \A u \in twice : u.id >= nextId => u.id >= nextId + created
           /\ \A u, v \in twice :
                 (/\ u.id >= nextId /\ v.id >= nextId
                  /\ u.title = v.title /\ u.task_date = v.task_date)
                 => u.id = v.id

\* ---- generate-schedule and the evaluator at the same time ----
\* C29: when both calls have returned, every task the evaluator wrote to
\* and that is still stored holds the status, the reason and the
\* proposed_date the evaluator wrote: generate-schedule has not put back
\* the values it had read before.
C29_NoLostUpdate ==
    (probe.stage = "race" /\ probe.gpc = "done" /\ probe.epc = "done")
    => \A w \in probe.ewrote, u \in tasks :
          u.id = w.id
          => /\ u.status = w.status
             /\ u.reason = w.reason
             /\ u.proposed_date = w.proposed_date

\* C30: approve-reschedule and reject-reschedule called with an id no stored
\* task has answer 404, called for a task whose proposed_date is null answer
\* 400, and in both cases leave every stored task as it was; a call that
\* goes through leaves the task's proposed_date null, so that the next
\* approval or rejection of the same task is the second case.
C30_FailedApprovalChangesNothing ==
    [][\A task_id \in TaskIds \cup {0} :
          (approve_reschedule(task_id) \/ reject_reschedule(task_id))
          => /\ (~\E t \in tasks : t.id = task_id)
                   => /\ tasks' = tasks
                      /\ ~lastOp'.ok /\ lastOp'.status_code = 404
             /\ (\E t \in tasks : t.id = task_id /\ t.proposed_date = null)
                   => /\ tasks' = tasks
                      /\ ~lastOp'.ok /\ lastOp'.status_code = 400
             /\ (\E t \in tasks : t.id = task_id /\ t.proposed_date # null)
                   => /\ lastOp'.ok
                      /\ \A u \in tasks' :
                            u.id = task_id => u.proposed_date = null]_vars

\* a second approval or rejection of a proposal that was already approved or
\* rejected has been refused
C30_Witness ==
    /\ lastOp.op \in {"approve", "reject"}
    /\ ~lastOp.ok
    /\ lastOp.status_code = 400
    /\ \E t \in tasks :
          /\ t.id = lastOp.id
          /\ t.proposed_date = null
          /\ \E i \in 1..Len(t.reason) :
                t.reason[i] \in {"Approved by manager", "Rejected by manager"}

\* a call for an id that no stored task has was refused
C30_WitnessNotFound ==
    /\ lastOp.op \in {"approve", "reject"}
    /\ lastOp.status_code = 404
    /\ tasks # {}
====
